---- MODULE Spec2Model ----
(***************************************************************************)
(* Dispatch pipeline of createCoreRealtime (src/realtime/v2/realtime.js).  *)
(*                                                                         *)
(* The registries (global middleware, routes, lifecycle hooks) hold user   *)
(* functions.  A registry is modelled by the number of functions it holds; *)
(* what a user function does (call ctx.stop(), call or await next(),       *)
(* return, throw, the value a guard returns) is chosen when the function   *)
(* runs, so every behaviour of every function is covered.                  *)
(*                                                                         *)
(* An async function is cut at its awaits: one action runs the code from   *)
(* one suspension point to the next.                                       *)
(***************************************************************************)
EXTENDS Naturals, Integers, Sequences, FiniteSets, TLC

\* ------------------------------------------------------------------ bounds
MaxCallbacks == 2   \* middleware, guards and hooks registered in total
MaxRouteList == 2   \* routes in the list of one registerRoutes call
MaxListeners == 3   \* callbacks registered with on, over all events
MaxInstalls == 2    \* plugin invocations made by use
MaxStarts == 2      \* message callbacks start has registered with the adapter
MaxRetries == 2     \* the largest argument of retry

\* ------------------------------------------------------------------ values
EventTypes == {"ping", "x"}
Handlers == {"hA", "hB"}
ErrMsgs == {"boom", "kaput"}
Slots == {"A", "B"}
FirstSlot == "A"
ChainNames == {"g", "r"}
HookNames == {"beforeStart", "afterStart", "beforeMessage", "afterMessage", "onError"}
MsgHookNames == {"beforeMessage", "afterMessage", "onError"}
\* The names hook() is called with; "bogus" is no property of lifecycleHooks.
HookArgs == HookNames \cup {"bogus"}

\* A value a guard returns (typeof result, result?.allowed, result?.reason).
\* bool is the value of a boolean; allowed is the value's "allowed" property
\* ("absent": the property reads undefined, as it does on a boolean).
GuardValue(kind, bool, allowed, reason) ==
    [kind |-> kind, bool |-> bool, allowed |-> allowed, reason |-> reason]
GuardValues ==
    { GuardValue("boolean", "true", "absent", "none"),
      GuardValue("boolean", "false", "absent", "none"),
      GuardValue("object", "none", "true", "none"),
      GuardValue("object", "none", "false", "no-perm"),
      GuardValue("object", "none", "absent", "none"),
      GuardValue("undefined", "none", "absent", "none") }
GuardThrew == GuardValue("thrown", "none", "absent", "none")
NoGuardValue == GuardValue("none", "none", "absent", "none")
GuardOutcomes == GuardValues \cup {GuardThrew}

NoRoute == [guards |-> 0, middleware |-> 0, handler |-> "none"]

\* What registerRoutes may find in the event and handler properties of a
\* route: "" is an empty or missing event (both falsy), "undefined" a
\* missing handler, "notfn" a handler that is not a function.
FalsyEvents == {""}
RouteKeys == EventTypes \cup FalsyEvents
RouteHandlers == Handlers \cup {"undefined", "notfn"}
Route(event, guards, middleware, handler) ==
    [event |-> event, guards |-> guards, middleware |-> middleware,
     handler |-> handler]
RouteDefs == [guards : 0..MaxCallbacks, middleware : 0..MaxCallbacks, handler : Handlers]

\* One invocation of a middleware: where it is, and whether it has called its
\* continuation.
Frame(st, called) == [st |-> st, called |-> called]
IdleFrame == Frame("idle", FALSE)
Frames == 0..(MaxCallbacks - 1)
\* One run of runMiddleware: i, the invocations of middleware[j], the value
\* reported, and ctx.isStopped() as read when the awaited chain completed.
NoRun == [i |-> -1, fr |-> [j \in Frames |-> IdleFrame],
          res |-> "none", stopAt |-> FALSE]

\* The local event bus: events, the functions registered as listeners, and
\* one call of internalEmit: the array index of the for...of loop, the
\* callbacks invoked so far, the array as it was when the loop began, the
\* callbacks off removed from it during the loop (early: before their turn)
\* and whether on added to it during the loop.
BusEvents == {"e1", "e2"}
Callbacks == {"cbA", "cbB", "cbC"}
\* What adapter() is called with: null, "bound" and "other" are two adapters
\* with onMessage, send and broadcast, the others lack the method named.
Adapters == {"null", "bound", "other", "noOnMessage", "noSend", "noBroadcast"}

\* Calls of start() that may be in progress at once, and one such call:
\* the hooks it is running, the index of the next hook, what the hooks it
\* has awaited did (name, index, threw).
StartCalls == {"s1", "s2"}
NoStart == [st |-> "idle", hk |-> 0, log |-> <<>>]
\* What use() is called with: a function, an object with an install
\* method, and a value that is neither.
Plugins == {"pFn", "pObj"}
UseArgs == Plugins \cup {"notPlugin"}

Emitters == {"x1", "x2"}
Call(to, method, event, arg) ==
    [to |-> to, method |-> method, event |-> event, arg |-> arg]
NoCall == Call("none", "none", "none", "none")
NoEmission ==
    [st |-> "idle", event |-> "none", idx |-> 0, log |-> <<>>, at |-> <<>>,
     removed |-> {}, early |-> {}, added |-> FALSE]

\* What setSerializer is called with: a codec with encode and decode, and an
\* object without decode.
SerializerArgs == {"codec", "noDecode"}

\* A value on the wire: the data and the encodings applied to it, outermost
\* first.
Plain(data) == [layers |-> <<>>, body |-> data]
NoPayload == Plain([message |-> "none"])

\* serializer.encode / serializer.decode.  The default serializer returns
\* its argument; a codec wraps the value and unwraps what it wrapped, and
\* anything else comes out of its decode malformed.
Encode(ser, w) ==
    IF ser = "identity" THEN w ELSE [w EXCEPT !.layers = <<ser>> \o @]

Decode(ser, w) ==
    IF ser = "identity" THEN w
    ELSE IF w.layers # <<>> /\ Head(w.layers) = ser
         THEN [w EXCEPT !.layers = Tail(@)]
         ELSE [w EXCEPT !.layers = <<"malformed">> \o @]

\* What the adapter hands to the message callback.
Inbound == {NoPayload, Encode("codec", NoPayload)}

IdleMsg ==
    [st |-> "idle", type |-> "none", stopped |-> FALSE, stopBy |-> "none",
     hk |-> 0, g |-> NoRun, r |-> NoRun, route |-> NoRoute,
     gd |-> 0, gdEval |-> 0, gdLast |-> NoGuardValue, gdRes |-> "none",
     trace |-> <<>>, handlerCalls |-> 0, hId |-> "none", hDone |-> FALSE,
     err |-> "none", hErr |-> "none", dbl |-> FALSE,
     onErrLog |-> <<>>, ehLog |-> <<>>, sent |-> <<>>,
     appContext |-> "none", overlap |-> FALSE, hkLog |-> <<>>,
     raw |-> NoPayload, payload |-> NoPayload, wire |-> <<>>,
     meta |-> FALSE]

\* ------------------------------------------------- ObservableResponse
\* Statuses of the responses of a request: the executor resolves with the
\* HTTP status and rejects with 'network_error'; the timer of timeout()
\* rejects with 'timeout'.
ResolveStatuses == {"200", "500"}
RejectStatuses == {"network_error"}
StatusKeys == {"500", "network_error", "timeout"}
Is2xx(status) == status = "200"
NoDelivery == [status |-> "none", ran |-> "none", threw |-> FALSE, fin |-> FALSE]

\* new ObservableResponse(executor): no handler, no timer, maxRetries 0, and
\* the executor has been called once.  yielded: the statement that built the
\* request and chained its handlers has ended.  attempts, inFlight,
\* delivered, handlerRuns, finallyCalls and last record what the executor
\* and the callbacks saw.
NewObservable ==
    [handlers |-> {}, anyHandler |-> FALSE, catchHandler |-> FALSE,
     finallyHandler |-> FALSE, maxRetries |-> 0, retryCount |-> 0,
     timeoutId |-> "none", yielded |-> FALSE, attempts |-> 1, inFlight |-> 1,
     delivered |-> 0, handlerRuns |-> 0, finallyCalls |-> 0,
     last |-> NoDelivery]

VARIABLES
    globalMiddleware,   \* number of registered global middleware
    routes,             \* event type -> route record, or NoRoute
    lifecycleHooks,     \* hook name -> number of registered callbacks
    errorHandler,       \* "default" or "custom"
    transport,          \* "none" or "bound"
    isActive,
    listening,          \* callbacks registered with transport.onMessage
    dispatching,        \* the transport has delivered its first message
    msg,                \* slot -> the message being processed in it
    globalAppContext,   \* the object ctx.appContext is taken from
    regCall,            \* the last registerRoutes call: its list, what it threw
    eventListeners,     \* event -> the array of callbacks registered with on
    emission,           \* the current or the last call of internalEmit
    customEventEmitter, \* "none" or the emitter given to setEventEmitter
    delegated,          \* the last call made on the custom event emitter
    raised,             \* what the last call of hook, use or adapter threw
    starts,             \* start call -> where that call of start() is
    lost,               \* type of a message the adapter had no callback for
    plugins,            \* the plugins array
    installs,           \* plugin -> number of times it has been invoked
    strictMode,         \* config.strictMode
    serializer,         \* "identity" or the object given to setSerializer
    observable          \* one ObservableResponse of the HTTP client

core == <<globalMiddleware, routes, lifecycleHooks, errorHandler, transport,
          isActive, listening, dispatching, msg, globalAppContext, regCall>>
bus == <<eventListeners, emission, customEventEmitter, delegated>>
rest == <<starts, lost, plugins, installs, strictMode, serializer, observable>>
life == <<raised, rest>>
vars == <<core, bus, life>>
config == <<globalMiddleware, routes, lifecycleHooks, errorHandler, transport,
            isActive, listening, globalAppContext, regCall, bus, life>>

Init ==
    /\ globalMiddleware = 0
    /\ routes = [e \in RouteKeys |-> NoRoute]
    /\ lifecycleHooks = [h \in HookNames |-> 0]
    /\ errorHandler = "default"
    /\ transport = "none"
    /\ isActive = FALSE
    /\ listening = 0
    /\ dispatching = FALSE
    /\ msg = [s \in Slots |-> IdleMsg]
    /\ globalAppContext = "initial"
    /\ regCall = [list |-> <<>>, error |-> "none"]
    /\ eventListeners = [e \in BusEvents |-> <<>>]
    /\ emission = NoEmission
    /\ customEventEmitter = "none"
    /\ delegated = NoCall
    /\ raised = "none"
    /\ starts = [c \in StartCalls |-> NoStart]
    /\ lost = "none"
    /\ plugins = <<>>
    /\ installs = [p \in Plugins |-> 0]
    /\ strictMode = TRUE
    /\ serializer = "identity"
    /\ observable = NewObservable

\* ------------------------------------------------------- registration API
CallbacksOf(gm, rt, hooks) ==
    gm + rt["ping"].guards + rt["ping"].middleware
       + rt["x"].guards + rt["x"].middleware
       + hooks["beforeStart"] + hooks["afterStart"]
       + hooks["beforeMessage"] + hooks["afterMessage"] + hooks["onError"]

\* The registration calls of the fluent chain are made before the transport
\* delivers the first message.
Configuring == ~dispatching

\* registerGlobalMiddleware(list): globalMiddleware.push(...list)
registerGlobalMiddleware(n) ==
    /\ Configuring
    /\ CallbacksOf(globalMiddleware + n, routes, lifecycleHooks) <= MaxCallbacks
    /\ globalMiddleware' = globalMiddleware + n
    /\ UNCHANGED <<routes, lifecycleHooks, errorHandler, transport, isActive,
                   listening, dispatching, msg, globalAppContext, regCall, bus, life>>

\* Faulty variant of RouteError: typeof handler is not checked.
RouteError_NoTypeCheck(route) ==
    IF route.event \in FalsyEvents \/ route.handler = "undefined"
    THEN "required"
    ELSE "none"

\* registerRoutes, the checks made on one route of the list: what is thrown.
RouteError(route) ==
    IF route.event \in FalsyEvents \/ route.handler = "undefined"
    THEN "required"
    ELSE IF route.handler \notin Handlers THEN "not-function"
    ELSE "none"

\* Faulty variant of RouteSet: a registered event keeps its first route.
RouteSet_FirstWins(rt, route) ==
    IF rt[route.event] # NoRoute THEN rt
    ELSE [rt EXCEPT ![route.event] =
             [guards |-> route.guards, middleware |-> route.middleware,
              handler |-> route.handler]]

\* routes.set(event, { guards, middleware, handler })
RouteSet(rt, route) ==
    [rt EXCEPT ![route.event] =
        [guards |-> route.guards, middleware |-> route.middleware,
         handler |-> route.handler]]

\* Faulty variant of RegisterLoop: a list with an invalid route inserts
\* nothing.
RegisterLoop_Atomic(rt, list, k) ==
    LET bad == {j \in k..Len(list) : RouteError(list[j]) # "none"}
        first == CHOOSE j \in bad : \A q \in bad : j <= q
        put(e) == {j \in k..Len(list) : list[j].event = e}
        last(e) == CHOOSE j \in put(e) : \A q \in put(e) : q <= j
    IN  IF bad # {}
        THEN [routes |-> rt, error |-> RouteError(list[first])]
        ELSE [routes |-> [e \in DOMAIN rt |->
                            IF put(e) = {} THEN rt[e]
                            ELSE [guards |-> list[last(e)].guards,
                                  middleware |-> list[last(e)].middleware,
                                  handler |-> list[last(e)].handler]],
              error |-> "none"]

\* registerRoutes, the loop from route k of the list on: a route that fails
\* a check ends the call with an exception, the routes before it are set.
RECURSIVE RegisterLoop(_, _, _)
RegisterLoop(rt, list, k) ==
    IF k > Len(list) THEN [routes |-> rt, error |-> "none"]
    ELSE IF RouteError(list[k]) # "none"
         THEN [routes |-> rt, error |-> RouteError(list[k])]
         ELSE RegisterLoop(RouteSet(rt, list[k]), list, k + 1)

\* registerRoutes(routeList) for an array
RoutesRegistered(list) ==
    LET done == RegisterLoop(routes, list, 1)
    IN  /\ routes' = done.routes
        /\ regCall' = [list |-> list, error |-> done.error]
        /\ UNCHANGED <<globalMiddleware, lifecycleHooks, errorHandler,
                       transport, isActive, listening, dispatching, msg,
                       globalAppContext, bus, life>>

\* registerRoutes(routeList) called before the first message is delivered
registerRouteList(list) ==
    /\ Configuring
    /\ RoutesRegistered(list)

\* registerRoutes([{event, guards, middleware, handler}]) for one valid route
registerRoutes(e, rd) ==
    /\ routes[e] # rd
    /\ CallbacksOf(globalMiddleware, [routes EXCEPT ![e] = rd], lifecycleHooks)
         <= MaxCallbacks
    /\ registerRouteList(<<Route(e, rd.guards, rd.middleware, rd.handler)>>)

\* Faulty variant of HookList: an unknown name goes to the onError list.
HookList_Fallback(name) == IF name \in HookNames THEN name ELSE "onError"

\* hook: lifecycleHooks[name], "none" when the object has no such property
HookList(name) == IF name \in HookNames THEN name ELSE "none"

\* hook(name, callback): throws for a name lifecycleHooks does not have,
\* otherwise lifecycleHooks[name].push(callback)
hook(name) ==
    /\ Configuring
    /\ IF HookList(name) = "none"
       THEN /\ raised' = "unknown-hook"
            /\ UNCHANGED lifecycleHooks
       ELSE /\ CallbacksOf(globalMiddleware, routes, lifecycleHooks) < MaxCallbacks
            /\ lifecycleHooks' = [lifecycleHooks EXCEPT ![HookList(name)] = @ + 1]
            /\ raised' = "none"
    /\ UNCHANGED <<globalMiddleware, routes, errorHandler, transport, isActive,
                   listening, dispatching, msg, globalAppContext, regCall, bus, rest>>

\* setErrorHandler(handler) for a function
setErrorHandler ==
    /\ Configuring
    /\ errorHandler = "default"
    /\ errorHandler' = "custom"
    /\ UNCHANGED <<globalMiddleware, routes, lifecycleHooks, transport, isActive,
                   listening, dispatching, msg, globalAppContext, regCall, bus, life>>

\* The objects setAppContext is called with; "null" is a falsy argument.
AppArgs == {"null", "c1", "c2"}

\* setAppContext: ctx || {}
AppContextOf(c) == IF c = "null" THEN "fresh" ELSE c

\* setAppContext(ctx): globalAppContext = ctx || {}
setAppContext(c) ==
    /\ globalAppContext' = AppContextOf(c)
    /\ UNCHANGED <<globalMiddleware, routes, lifecycleHooks, errorHandler,
                   transport, isActive, listening, dispatching, msg, regCall,
                   bus, life>>

\* Faulty variant of MissingMethod: only onMessage is required.
MissingMethod_OnlyOnMessage(instance) ==
    IF instance = "noOnMessage" THEN "onMessage" ELSE "none"

\* validateAdapter: the first of onMessage, send, broadcast that is not a
\* function of the instance
MissingMethod(instance) ==
    CASE instance = "noOnMessage" -> "onMessage"
      [] instance = "noSend" -> "send"
      [] instance = "noBroadcast" -> "broadcast"
      [] OTHER -> "none"

\* adapter(instance): throws for a null instance and, with config.strictMode,
\* for an instance validateAdapter refuses; otherwise
\* transport = wrapTransport(instance)
adapterOf(instance) ==
    LET error == IF instance = "null" THEN "null-adapter"
                 ELSE IF strictMode /\ MissingMethod(instance) # "none"
                      THEN MissingMethod(instance)
                      ELSE "none"
    IN  /\ raised' = error
        /\ transport' = IF error = "none" THEN instance ELSE transport
        /\ UNCHANGED <<globalMiddleware, routes, lifecycleHooks, errorHandler,
                       isActive, listening, dispatching, msg, globalAppContext,
                       regCall, bus, rest>>

\* adapter(instance) for a complete adapter, on an instance without one
adapter ==
    /\ transport = "none"
    /\ adapterOf("bound")

\* start(): throws without a transport, returns early when already active,
\* otherwise registers the message callback and sets isActive
start ==
    /\ transport = "bound"
    /\ ~isActive
    /\ listening' = listening + 1
    /\ isActive' = TRUE
    /\ UNCHANGED <<globalMiddleware, routes, lifecycleHooks, errorHandler,
                   transport, dispatching, msg, globalAppContext, regCall, bus, life>>

\* ------------------------------------------------------ pure decisions
\* Faulty variant of GuardAllowed: only an explicit allowed: false rejects.
GuardAllowed_OnlyExplicitDenial(result) ==
    IF result.kind = "boolean" THEN result.bool = "true"
    ELSE result.allowed # "false"

\* runGuards: typeof result === 'boolean' ? result : result?.allowed
GuardAllowed(result) ==
    IF result.kind = "boolean" THEN result.bool = "true"
    ELSE result.allowed = "true"

\* Faulty variant of GuardVerdict: no try/catch around the guard.
GuardVerdict_NoCatch(outcome) ==
    IF outcome = GuardThrew THEN "throw"
    ELSE IF GuardAllowed(outcome) THEN "pass" ELSE "reject"

\* runGuards, one iteration: "reject" is return false, "pass" goes on to the
\* next guard; the catch turns a throw into return false.
GuardVerdict(outcome) ==
    IF outcome = GuardThrew THEN "reject"
    ELSE IF GuardAllowed(outcome) THEN "pass" ELSE "reject"

\* Faulty variant of RunnerReport: ctx.isStopped() is not consulted.
RunnerReport_IgnoresStop(threw, isStopped) ==
    IF threw THEN "false" ELSE "true"

\* runMiddleware, after `await next()`: the value returned ("throw" would be
\* an exception leaving runMiddleware, which the try/catch rules out).
RunnerReport(threw, isStopped) ==
    IF threw THEN "false"
    ELSE IF isStopped THEN "false" ELSE "true"

\* Faulty variant of RouteGet: an unknown type falls back to the "ping" route.
RouteGet_Fallback(rt, type) == IF rt[type] # NoRoute THEN rt[type] ELSE rt["ping"]

\* routes.get(type)
RouteGet(rt, type) == rt[type]

\* Faulty variant of AfterGlobalStage: `if (!accepted) return` is missing.
AfterGlobalStage_NoAcceptedCheck(report, route) ==
    IF route = NoRoute THEN "Rejected" ELSE "guards"

\* The message callback after the global chain: `if (!accepted) return`,
\* `if (!route) return`, else runGuards.
AfterGlobalStage(report, route) ==
    IF report = "throw" THEN "onError"
    ELSE IF report # "true" THEN "Rejected"
    ELSE IF route = NoRoute THEN "Rejected"
    ELSE "guards"

\* The message callback after runGuards: `if (!allowed) return`
AfterGuardsStage(allowed) == IF allowed THEN "routeMw" ELSE "Rejected"

\* The message callback after the route chain: `if (!passed) return`, else
\* the handler is invoked.
AfterRouteMwStage(report) ==
    IF report = "throw" THEN "onError"
    ELSE IF report # "true" THEN "Rejected"
    ELSE "handler"

\* Faulty variant of AfterHandlerStage: the afterMessage hooks run whether
\* the handler returned or threw.
AfterHandlerStage_HooksAlways(threw) == "afterMessage"

\* The callback after `await Promise.resolve().then(() => route.handler(ctx))`:
\* runHooks('afterMessage', ctx) when it returned, the catch block when it
\* threw.
AfterHandlerStage(threw) == IF threw THEN "onError" ELSE "afterMessage"

\* Faulty variant of DefaultErrorSend: a fixed text instead of err.message.
DefaultErrorSend_FixedText(err) == [type |-> "error", payload |-> [message |-> "error"]]

\* Default errorHandler: ctx?.send?.('error', { message: err.message })
DefaultErrorSend(err) == [type |-> "error", payload |-> [message |-> err]]

\* ------------------------------------------------------ middleware chains
SetMsg(s, m) == msg' = [msg EXCEPT ![s] = m]

\* Faulty variant of MsgRoute: the table is read again at every stage.
MsgRoute_Live(m) == routes[m.type]

\* `const route = routes.get(type)`: the record the callback resolved, which
\* its guards, route middleware and handler are read from.
MsgRoute(m) == m.route

\* middleware.length of the list a run walks: the global list is read live,
\* a route's list is the one of the route record the message resolved.
ChainLen(m, c) == IF c = "g" THEN globalMiddleware ELSE MsgRoute(m).middleware

\* runMiddleware(middleware, ctx) up to its `await next()`: next(0) sets
\* i = 0 and invokes middleware[0] when there is one.
StartRun(n) ==
    [NoRun EXCEPT !.i = 0,
                  !.fr[0] = IF n > 0 THEN Frame("run", FALSE) ELSE IdleFrame]

\* The promise of next(0) has settled and runMiddleware has not yet returned.
Settled(run) ==
    /\ run.i >= 0
    /\ run.res = "none"
    /\ run.fr[0].st \in {"idle", "ok", "err"}

Running(m) ==
    \E c \in ChainNames : \E j \in Frames : m[c].fr[j].st \in {"run", "wait"}

\* Faulty variant of ChainIndex: one index for every run of the runner.
ChainIndex_Shared(s, c) ==
    CHOOSE n \in -1..MaxCallbacks :
        /\ \E q \in Slots : \E d \in ChainNames : msg[q][d].i = n
        /\ \A q \in Slots : \A d \in ChainNames : msg[q][d].i <= n

\* runMiddleware: `let i = -1`, a variable of the call, read by its next().
ChainIndex(s, c) == msg[s][c].i

\* Middleware j of chain c calls its continuation, () => next(j + 1).
\*   j + 1 <= i : next throws "next() llamado multiples veces"; the promise
\*                rejects.  An awaiting caller catches it or lets it
\*                propagate; without await it is an unhandled rejection.
\*   otherwise  : i = j + 1, and middleware[j + 1] is invoked if it exists.
MwCallNext(s, c, j, awaited, caught) ==
    LET m == msg[s]
        run == m[c]
        k == j + 1
        twice == k <= ChainIndex(s, c)
        hasFn == k < ChainLen(m, c)
        callerSt == IF twice
                    THEN (IF awaited /\ ~caught THEN "err" ELSE "run")
                    ELSE (IF awaited /\ hasFn THEN "wait" ELSE "run")
        fr1 == [run.fr EXCEPT ![j] = Frame(callerSt, TRUE)]
        fr2 == IF ~twice /\ hasFn THEN [fr1 EXCEPT ![k] = Frame("run", FALSE)] ELSE fr1
    IN  /\ run.fr[j].st = "run"
        /\ caught => (twice /\ awaited)
        /\ SetMsg(s, [m EXCEPT ![c].fr = fr2,
                               ![c].i = IF twice THEN run.i ELSE k,
                               !.dbl = m.dbl \/ twice])
        /\ UNCHANGED <<config, dispatching>>

\* `await next()` of middleware j returns (middleware j + 1 has returned) or
\* throws (middleware j + 1 threw); a try/catch around it may catch.
MwResume(s, c, j, caught) ==
    LET m == msg[s]
        run == m[c]
        child == run.fr[j + 1].st
    IN  /\ j + 1 \in Frames
        /\ run.fr[j].st = "wait"
        /\ child \in {"ok", "err"}
        /\ caught => child = "err"
        /\ SetMsg(s, [m EXCEPT ![c].fr[j].st =
                          IF child = "err" /\ ~caught THEN "err" ELSE "run"])
        /\ UNCHANGED <<config, dispatching>>

\* ctx.stop() called by middleware j of chain c
MwStop(s, c, j) ==
    LET m == msg[s]
    IN  /\ m[c].fr[j].st = "run"
        /\ ~m.stopped
        /\ SetMsg(s, [m EXCEPT !.stopped = TRUE, !.stopBy = c])
        /\ UNCHANGED <<config, dispatching>>

\* middleware j of chain c writes ctx.meta.mark = true; meta is the object
\* createContext made for this message.
MwMeta(s, c, j) ==
    LET m == msg[s]
    IN  /\ m[c].fr[j].st = "run"
        /\ ~m.meta
        /\ SetMsg(s, [m EXCEPT !.meta = TRUE])
        /\ UNCHANGED <<config, dispatching>>

\* middleware j of chain c returns
MwReturn(s, c, j) ==
    LET m == msg[s]
    IN  /\ m[c].fr[j].st = "run"
        /\ SetMsg(s, [m EXCEPT ![c].fr[j].st = "ok"])
        /\ UNCHANGED <<config, dispatching>>

\* middleware j of chain c throws
MwThrow(s, c, j) ==
    LET m == msg[s]
    IN  /\ m[c].fr[j].st = "run"
        /\ SetMsg(s, [m EXCEPT ![c].fr[j].st = "err"])
        /\ UNCHANGED <<config, dispatching>>

\* ------------------------------------------------------------- dispatcher
Terminal == {"Done", "Rejected", "Errored"}
StageOrder ==
    <<"beforeMessage", "global", "lookup", "guards", "routeMw", "handler",
      "afterMessage">>

\* createContext(type, payload): the context object; appContext is the
\* value of globalAppContext when the context is created.
createContext(type, fullPayload) ==
    [IdleMsg EXCEPT !.type = type, !.appContext = globalAppContext,
                    !.payload = fullPayload]

\* Faulty variant of CtxAppContext: the property reads the live variable.
CtxAppContext_Live(m) == globalAppContext

\* ctx.appContext as a stage of the message reads it
CtxAppContext(m) == m.appContext

\* The transport invokes the message callback: createContext(type, payload),
\* then runHooks('beforeMessage', ctx) starts.  The transport of this
\* specification delivers a message when the previous one has been processed.
\* wrapTransport: send and broadcast hand serializer.encode(payload) to the
\* adapter, and the message callback gets serializer.decode(payload); the
\* serializer is read when the wrapper runs.
\* Faulty variant of encoded: the payload reaches the adapter as it is.
encoded_Raw(payload) == Plain(payload)

encoded(payload) == Encode(serializer, Plain(payload))

decoded(payload) == Decode(serializer, payload)

\* ctx.send / ctx.broadcast: what the adapter's method receives.
Wire(method, type, payload) ==
    [method |-> method, type |-> type, payload |-> encoded(payload)]

\* The adapter calls the message callback with (t, w).
Receive(s, t, w) ==
    /\ listening > 0
    /\ transport = "bound"
    /\ \A q \in Slots : msg[q].st = "idle"
    /\ dispatching' = TRUE
    /\ SetMsg(s, [createContext(t, decoded(w)) EXCEPT
                    !.st = "beforeMessage", !.trace = <<"beforeMessage">>,
                    !.raw = w])
    /\ UNCHANGED config

Deliver(s, t) ==
    /\ s = FirstSlot
    /\ Receive(s, t, NoPayload)

\* createContext with no transport: `transport.normalizePayload` reads a
\* property of null, which throws a TypeError.
ContextError(tr) == IF tr = "none" THEN "TypeError" ELSE "none"

\* The adapter calls a message callback registered by an earlier start()
\* after reset() has set transport to null: createContext throws and the
\* promise of the callback rejects.
ReceiveUnbound(s, t) ==
    /\ listening > 0
    /\ ContextError(transport) # "none"
    /\ \A q \in Slots : msg[q].st = "idle"
    /\ dispatching' = TRUE
    /\ SetMsg(s, [IdleMsg EXCEPT !.type = t, !.st = "Escaped",
                                 !.err = ContextError(transport)])
    /\ UNCHANGED config

\* The catch block of the message callback is entered with err.
Caught(m, e) == [m EXCEPT !.st = "onError", !.hk = 0, !.err = e]

\* Faulty variant of AfterHook: no try/catch around the hook.
AfterHook_NoCatch(threw) == IF threw THEN "throw" ELSE "next"

\* runHooks, after `await hook(...args)`: the catch logs what the hook threw
\* and the loop goes on to the next hook.
AfterHook(threw) == "next"

\* runHooks(hookName, ...args) for a message, one iteration of its loop: the
\* hook is awaited.  seen: what the hook did is recorded in hkLog.
RunHook(s, threw, seen) ==
    LET m == msg[s]
        m1 == [m EXCEPT !.hk = m.hk + 1,
                        !.onErrLog = IF m.st = "onError"
                                     THEN Append(@, <<m.hk + 1, m.err>>)
                                     ELSE @,
                        !.hkLog = IF seen THEN Append(@, <<m.st, m.hk + 1, threw>>)
                                  ELSE @]
    IN  /\ m.st \in MsgHookNames
        /\ m.hk < lifecycleHooks[m.st]
        /\ SetMsg(s, IF AfterHook(threw) = "next" THEN m1
                     ELSE IF m.st = "afterMessage" THEN Caught(m1, "hook")
                     ELSE [m1 EXCEPT !.st = "Escaped"])
        /\ UNCHANGED <<config, dispatching>>

runHooks(s, threw) == RunHook(s, threw, FALSE)

\* beforeMessage hooks done: runMiddleware(globalMiddleware, ctx) is called.
EnterGlobal(s) ==
    LET m == msg[s]
    IN  /\ m.st = "beforeMessage"
        /\ m.hk >= lifecycleHooks["beforeMessage"]
        /\ SetMsg(s, [m EXCEPT !.st = "global", !.hk = 0,
                               !.trace = Append(@, "global"),
                               !.g = StartRun(globalMiddleware)])
        /\ UNCHANGED <<config, dispatching>>

\* The global chain has settled: runMiddleware returns, then the callback
\* looks the route up and, if there is one, calls runGuards.
AfterGlobal(s) ==
    LET m == msg[s]
        rep == RunnerReport(m.g.fr[0].st = "err", m.stopped)
        rt == RouteGet(routes, m.type)
        to == AfterGlobalStage(rep, rt)
        m1 == [m EXCEPT !.g.res = rep, !.g.stopAt = m.stopped]
    IN  /\ m.st = "global"
        /\ Settled(m.g)
        /\ SetMsg(s,
             CASE to = "onError" -> Caught(m1, "runner")
               [] to = "guards" ->
                    [m1 EXCEPT !.st = "guards", !.route = rt, !.gd = 0,
                               !.trace = @ \o <<"lookup", "guards">>]
               [] OTHER ->
                    [m1 EXCEPT !.st = to,
                               !.trace = IF rep = "true"
                                         THEN Append(@, "lookup") ELSE @])
        /\ UNCHANGED <<config, dispatching>>

\* runGuards, one iteration: the guard is invoked and awaited.  It returns a
\* value or throws, and may have called ctx.stop().
Guard(s, outcome, stops) ==
    LET m == msg[s]
        v == GuardVerdict(outcome)
        m1 == [m EXCEPT !.gdEval = m.gdEval + 1, !.gdLast = outcome,
                        !.stopped = m.stopped \/ stops,
                        !.stopBy = IF stops THEN "guard" ELSE @]
    IN  /\ m.st = "guards"
        /\ m.gd < MsgRoute(m).guards
        /\ stops => ~m.stopped
        /\ SetMsg(s,
             CASE v = "pass" -> [m1 EXCEPT !.gd = m.gd + 1]
               [] v = "reject" ->
                    [m1 EXCEPT !.gdRes = "false", !.st = AfterGuardsStage(FALSE)]
               [] OTHER -> Caught(m1, "guard"))
        /\ UNCHANGED <<config, dispatching>>

\* runGuards returns true: runMiddleware(route.middleware, ctx) is called.
GuardsPassed(s) ==
    LET m == msg[s]
    IN  /\ m.st = "guards"
        /\ m.gd >= MsgRoute(m).guards
        /\ SetMsg(s, [m EXCEPT !.gdRes = "true", !.st = AfterGuardsStage(TRUE),
                               !.trace = Append(@, "routeMw"),
                               !.r = StartRun(MsgRoute(m).middleware)])
        /\ UNCHANGED <<config, dispatching>>

\* The route chain has settled: runMiddleware returns, then the handler of
\* the route is invoked.
AfterRouteMw(s) ==
    LET m == msg[s]
        rep == RunnerReport(m.r.fr[0].st = "err", m.stopped)
        to == AfterRouteMwStage(rep)
        m1 == [m EXCEPT !.r.res = rep, !.r.stopAt = m.stopped]
    IN  /\ m.st = "routeMw"
        /\ Settled(m.r)
        /\ SetMsg(s,
             CASE to = "onError" -> Caught(m1, "runner")
               [] to = "handler" ->
                    [m1 EXCEPT !.st = "handler", !.hId = MsgRoute(m).handler,
                               !.handlerCalls = m.handlerCalls + 1,
                               !.trace = Append(@, "handler")]
               [] OTHER -> [m1 EXCEPT !.st = to])
        /\ UNCHANGED <<config, dispatching>>

\* The handler calls ctx.send("pong", {}).
HandlerSend(s) ==
    LET m == msg[s]
    IN  /\ m.st = "handler"
        /\ m.sent = <<>>
        /\ SetMsg(s, [m EXCEPT !.sent = Append(@, [type |-> "pong",
                                                   payload |-> [message |-> "none"]]),
                               !.wire = Append(@, Wire("send", "pong",
                                                       [message |-> "none"]))])
        /\ UNCHANGED <<config, dispatching>>

\* The handler calls ctx.broadcast.
HandlerBroadcast(s) ==
    LET m == msg[s]
    IN  /\ m.st = "handler"
        /\ m.sent = <<>>
        /\ SetMsg(s, [m EXCEPT !.sent = Append(@, [type |-> "pong",
                                                   payload |-> [message |-> "none"]]),
                               !.wire = Append(@, Wire("broadcast", "pong",
                                                       [message |-> "none"]))])
        /\ UNCHANGED <<config, dispatching>>

\* The handler returns (its promise resolves): runHooks('afterMessage', ctx).
HandlerReturn(s) ==
    LET m == msg[s]
    IN  /\ m.st = "handler"
        /\ SetMsg(s, [m EXCEPT !.st = AfterHandlerStage(FALSE), !.hk = 0,
                               !.hDone = TRUE,
                               !.trace = Append(@, "afterMessage")])
        /\ UNCHANGED <<config, dispatching>>

\* The handler throws Error(e) (or its promise rejects): catch (err).
HandlerThrow(s, e) ==
    LET m == msg[s]
        m1 == [m EXCEPT !.hErr = e]
    IN  /\ m.st = "handler"
        /\ SetMsg(s, IF AfterHandlerStage(TRUE) = "onError" THEN Caught(m1, e)
                     ELSE [m1 EXCEPT !.st = AfterHandlerStage(TRUE), !.hk = 0,
                                     !.trace = Append(@, "afterMessage")])
        /\ UNCHANGED <<config, dispatching>>

\* afterMessage hooks done: the callback returns.
AfterMessageDone(s) ==
    LET m == msg[s]
    IN  /\ m.st = "afterMessage"
        /\ m.hk >= lifecycleHooks["afterMessage"]
        /\ SetMsg(s, [m EXCEPT !.st = "Done"])
        /\ UNCHANGED <<config, dispatching>>

\* onError hooks done: errorHandler(err, ctx) is called, inside the catch
\* block.  A handler installed with setErrorHandler may throw: nothing
\* encloses the call, so the promise of the message callback rejects.
CallErrorHandler(s, threw) ==
    LET m == msg[s]
    IN  /\ m.st = "onError"
        /\ m.hk >= lifecycleHooks["onError"]
        /\ threw => errorHandler = "custom"
        /\ SetMsg(s, [m EXCEPT !.st = IF threw THEN "Escaped" ELSE "Errored",
                               !.ehLog = Append(@, m.err),
                               !.sent = IF errorHandler = "default"
                                        THEN Append(@, DefaultErrorSend(m.err))
                                        ELSE @,
                               !.wire = IF errorHandler = "default"
                                        THEN Append(@, Wire("send", "error",
                                                 DefaultErrorSend(m.err).payload))
                                        ELSE @])
        /\ UNCHANGED <<config, dispatching>>

\* The context of a processed message is dropped once nothing refers to it.
Retire(s) ==
    /\ msg[s].st \in Terminal \cup {"Escaped"}
    /\ ~Running(msg[s])
    /\ SetMsg(s, IdleMsg)
    /\ UNCHANGED <<config, dispatching>>

\* ---------------------------------------------------------- specification
Next ==
    \/ \E n \in 1..MaxCallbacks : registerGlobalMiddleware(n)
    \/ \E e \in EventTypes : \E rd \in RouteDefs : registerRoutes(e, rd)
    \/ \E h \in MsgHookNames : hook(h)
    \/ setErrorHandler
    \/ adapter
    \/ start
    \/ \E s \in Slots : \E t \in EventTypes : Deliver(s, t)
    \/ \E s \in Slots : \E b \in BOOLEAN : runHooks(s, b)
    \/ \E s \in Slots : EnterGlobal(s)
    \/ \E s \in Slots : AfterGlobal(s)
    \/ \E s \in Slots : \E o \in GuardOutcomes : \E b \in BOOLEAN : Guard(s, o, b)
    \/ \E s \in Slots : GuardsPassed(s)
    \/ \E s \in Slots : AfterRouteMw(s)
    \/ \E s \in Slots : HandlerSend(s)
    \/ \E s \in Slots : HandlerReturn(s)
    \/ \E s \in Slots : \E e \in ErrMsgs : HandlerThrow(s, e)
    \/ \E s \in Slots : AfterMessageDone(s)
    \/ \E s \in Slots : \E b \in BOOLEAN : CallErrorHandler(s, b)
    \/ \E s \in Slots : Retire(s)
    \/ \E s \in Slots : \E c \in ChainNames : \E j \in Frames :
         \/ \E a \in BOOLEAN : \E k \in BOOLEAN : MwCallNext(s, c, j, a, k)
         \/ \E k \in BOOLEAN : MwResume(s, c, j, k)
         \/ MwStop(s, c, j)
         \/ MwReturn(s, c, j)
         \/ MwThrow(s, c, j)

Spec == Init /\ [][Next]_vars

\* ---------------------------------------------------------- local event bus
Registered == Len(eventListeners["e1"]) + Len(eventListeners["e2"])

\* callbacks.indexOf(callback): the first position, 0 for the -1 of the code
IndexOf(list, cb) ==
    IF \E k \in 1..Len(list) : list[k] = cb
    THEN CHOOSE k \in 1..Len(list) :
             list[k] = cb /\ \A q \in 1..(k - 1) : list[q] # cb
    ELSE 0

\* callbacks.splice(idx, 1)
Splice(list, idx) == SubSeq(list, 1, idx - 1) \o SubSeq(list, idx + 1, Len(list))

\* Faulty variant of OffList: every occurrence is removed.
OffList_All(list, cb) == SelectSeq(list, LAMBDA x : x # cb)

\* off, on the array of the event: the first occurrence is removed
OffList(list, cb) ==
    IF IndexOf(list, cb) = 0 THEN list ELSE Splice(list, IndexOf(list, cb))

\* Faulty variant of UsesCustom: the built-in registry is always used.
UsesCustom_Never(emitter) == FALSE

\* on, off, internalEmit: if (customEventEmitter)
UsesCustom(emitter) == emitter # "none"

\* customEventEmitter.on / off / emit (event, callback or data)
Delegate(method, e, arg) ==
    /\ delegated' = Call(customEventEmitter, method, e, arg)
    /\ UNCHANGED <<core, life, eventListeners, emission, customEventEmitter>>

\* setEventEmitter(emitter) for an object with on, emit and off (the record
\* of the last built-in emission is dropped)
setEventEmitter(x) ==
    /\ emission.st # "running"
    /\ customEventEmitter' = x
    /\ emission' = NoEmission
    /\ UNCHANGED <<core, life, eventListeners, delegated>>

\* on(event, callback) called outside an emission (the record of the last
\* emission is dropped)
on(e, cb) ==
    /\ emission.st # "running"
    /\ IF UsesCustom(customEventEmitter) THEN Delegate("on", e, cb)
       ELSE /\ Registered < MaxListeners
            /\ eventListeners' = [eventListeners EXCEPT ![e] = Append(@, cb)]
            /\ emission' = NoEmission
            /\ UNCHANGED <<core, life, customEventEmitter, delegated>>

\* off(event, callback) called outside an emission
off(e, cb) ==
    /\ emission.st # "running"
    /\ IF UsesCustom(customEventEmitter) THEN Delegate("off", e, cb)
       ELSE /\ eventListeners' = [eventListeners EXCEPT ![e] = OffList(@, cb)]
            /\ emission' = NoEmission
            /\ UNCHANGED <<core, life, customEventEmitter, delegated>>

\* emit(event, data) / ctx.emit(event, data): internalEmit hands the call to
\* the custom emitter, or begins its loop over eventListeners.get(event).
emit(e) ==
    /\ emission.st # "running"
    /\ IF UsesCustom(customEventEmitter) THEN Delegate("emit", e, "data")
       ELSE /\ emission' = [NoEmission EXCEPT !.st = "running", !.event = e,
                                              !.idx = 1, !.at = eventListeners[e]]
            /\ UNCHANGED <<core, life, eventListeners, customEventEmitter,
                           delegated>>

\* One iteration of `for (const cb of callbacks) cb(data)`: the callback at
\* the index of the iterator is invoked.  It returns, throws (nothing in
\* internalEmit catches: the loop is abandoned and emit throws), or calls
\* off or on before it returns; off and on work on the array being iterated.
Listener(does, e, cb) ==
    LET ev == emission.event
        list == eventListeners[ev]
        me == list[emission.idx]
        em == [emission EXCEPT !.log = Append(@, me), !.idx = @ + 1]
        invoked == {em.log[k] : k \in 1..Len(em.log)}
    IN  /\ emission.st = "running"
        /\ emission.idx <= Len(list)
        /\ CASE does = "return" ->
                   /\ emission' = em
                   /\ UNCHANGED eventListeners
              [] does = "throw" ->
                   /\ emission' = [em EXCEPT !.st = "threw"]
                   /\ UNCHANGED eventListeners
              [] does = "off" ->
                   /\ eventListeners' = [eventListeners EXCEPT ![e] = OffList(@, cb)]
                   /\ emission' =
                        IF e = ev /\ IndexOf(list, cb) # 0
                        THEN [em EXCEPT !.removed = @ \cup {cb},
                                        !.early = IF cb \in invoked THEN @
                                                  ELSE @ \cup {cb}]
                        ELSE em
              [] does = "on" ->
                   /\ Registered < MaxListeners
                   /\ eventListeners' = [eventListeners EXCEPT ![e] = Append(@, cb)]
                   /\ emission' = IF e = ev THEN [em EXCEPT !.added = TRUE] ELSE em
        /\ UNCHANGED <<core, life, customEventEmitter, delegated>>

\* The iterator is past the end of the array: internalEmit returns.
emitReturn ==
    /\ emission.st = "running"
    /\ emission.idx > Len(eventListeners[emission.event])
    /\ emission' = [emission EXCEPT !.st = "returned"]
    /\ UNCHANGED <<core, life, eventListeners, customEventEmitter, delegated>>

NextBus ==
    \/ \E e \in BusEvents : \E cb \in Callbacks : on(e, cb)
    \/ \E e \in BusEvents : \E cb \in Callbacks : off(e, cb)
    \/ \E e \in BusEvents : emit(e)
    \/ \E x \in Emitters : setEventEmitter(x)
    \/ \E does \in {"return", "throw", "off", "on"} :
         \E e \in BusEvents : \E cb \in Callbacks : Listener(does, e, cb)
    \/ emitReturn

SpecBus == Init /\ [][NextBus]_vars

\* ------------------------------------------------------------------ start
\* start() is an async function: it runs up to `await runHooks('beforeStart')`
\* when called, and registers the message callback when that await is over.
Starting == \E c \in StartCalls : starts[c].st # "idle"

\* start() is called: the transport is there and isActive is false.
startCall(c) ==
    /\ starts[c].st = "idle"
    /\ transport = "bound"
    /\ ~isActive
    /\ starts' = [starts EXCEPT ![c] = [NoStart EXCEPT !.st = "beforeStart"]]
    /\ UNCHANGED <<core, bus, raised, lost, plugins, installs, strictMode,
                   serializer, observable>>

\* runHooks('beforeStart') / runHooks('afterStart'), one iteration
startHook(c, threw) ==
    LET sc == starts[c]
        sc1 == [sc EXCEPT !.hk = sc.hk + 1,
                          !.log = Append(@, <<sc.st, sc.hk + 1, threw>>)]
    IN  /\ sc.st \in {"beforeStart", "afterStart"}
        /\ sc.hk < lifecycleHooks[sc.st]
        /\ starts' = [starts EXCEPT ![c] =
                         IF AfterHook(threw) = "next" THEN sc1
                         ELSE [sc1 EXCEPT !.st = "failed"]]
        /\ UNCHANGED <<core, bus, raised, lost, plugins, installs, strictMode,
                       serializer, observable>>

\* The beforeStart hooks are over: transport.onMessage(callback),
\* isActive = true, then `await runHooks('afterStart')`.
startListen(c) ==
    /\ starts[c].st = "beforeStart"
    /\ starts[c].hk >= lifecycleHooks["beforeStart"]
    /\ listening' = listening + 1
    /\ isActive' = TRUE
    /\ starts' = [starts EXCEPT ![c].st = "afterStart", ![c].hk = 0]
    /\ UNCHANGED <<globalMiddleware, routes, lifecycleHooks, errorHandler,
                   transport, dispatching, msg, globalAppContext, regCall, bus,
                   raised, lost, plugins, installs, strictMode, serializer, observable>>

\* The afterStart hooks are over: the promise of start() resolves.
startDone(c) ==
    /\ starts[c].st = "afterStart"
    /\ starts[c].hk >= lifecycleHooks["afterStart"]
    /\ starts' = [starts EXCEPT ![c] = NoStart]
    /\ UNCHANGED <<core, bus, raised, lost, plugins, installs, strictMode,
                   serializer, observable>>

\* The adapter reports a message of type t while a start() call is still
\* awaiting its beforeStart hooks: no callback is registered with the
\* adapter yet, and the message goes nowhere.
Unheard(t) ==
    /\ transport = "bound"
    /\ listening = 0
    /\ \E c \in StartCalls : starts[c].st = "beforeStart"
    /\ lost' = t
    /\ UNCHANGED <<core, bus, raised, starts, plugins, installs, strictMode,
                   serializer, observable>>

\* The application registers its hooks and its route before it calls start.
setupHook(name) == ~Starting /\ ~isActive /\ hook(name)
setupRoute(h) ==
    ~Starting /\ ~isActive /\ registerRoutes("ping", [NoRoute EXCEPT !.handler = h])

NextStart ==
    \/ \E h \in HookArgs : setupHook(h)
    \/ \E h \in Handlers : setupRoute(h)
    \/ adapter
    \/ \E c \in StartCalls : startCall(c)
    \/ \E c \in StartCalls : \E b \in BOOLEAN : startHook(c, b)
    \/ \E c \in StartCalls : startListen(c)
    \/ \E c \in StartCalls : startDone(c)
    \/ \E t \in EventTypes : Unheard(t)
    \/ \E t \in EventTypes : Deliver(FirstSlot, t)
    \/ \E b \in BOOLEAN : RunHook(FirstSlot, b, TRUE)
    \/ EnterGlobal(FirstSlot)
    \/ AfterGlobal(FirstSlot)
    \/ GuardsPassed(FirstSlot)
    \/ AfterRouteMw(FirstSlot)
    \/ HandlerSend(FirstSlot)
    \/ HandlerReturn(FirstSlot)
    \/ \E e \in ErrMsgs : HandlerThrow(FirstSlot, e)
    \/ AfterMessageDone(FirstSlot)
    \/ CallErrorHandler(FirstSlot, FALSE)
    \/ Retire(FirstSlot)

SpecStart == Init /\ [][NextStart]_vars

\* -------------------------------------------------------------- life cycle
\* start() with no transport: throws 'Adapter no definido', before any hook.
startUnbound ==
    /\ transport = "none"
    /\ raised' = "no-adapter"
    /\ UNCHANGED <<core, bus, rest>>

\* configure({strictMode: b})
configure(b) ==
    /\ strictMode' = b
    /\ UNCHANGED <<core, bus, raised, starts, lost, plugins, installs, serializer, observable>>

Installed == installs["pFn"] + installs["pObj"]

\* use(plugin): a function is called, an object with install has install
\* called, anything else throws; the plugin is pushed onto plugins when the
\* call returns.  threw: the plugin throws, and use with it.
use(p, threw) ==
    /\ IF p \in Plugins
       THEN /\ Installed < MaxInstalls
            /\ installs' = [installs EXCEPT ![p] = @ + 1]
            /\ plugins' = IF threw THEN plugins ELSE Append(plugins, p)
            /\ raised' = IF threw THEN "plugin-error" ELSE "none"
       ELSE /\ ~threw
            /\ raised' = "bad-plugin"
            /\ UNCHANGED <<plugins, installs>>
    /\ UNCHANGED <<core, bus, starts, lost, strictMode, serializer, observable>>

NoListeners == [e \in BusEvents |-> <<>>]

\* stop(): returns when not active; otherwise eventListeners.clear(),
\* transport.disconnect() if there is one, isActive = false.  The message
\* callback stays registered with the adapter.
stop ==
    /\ isActive
    /\ emission.st # "running"
    /\ eventListeners' = NoListeners
    /\ isActive' = FALSE
    /\ UNCHANGED <<globalMiddleware, routes, lifecycleHooks, errorHandler,
                   transport, listening, dispatching, msg, globalAppContext,
                   regCall, emission, customEventEmitter, delegated, life>>

\* reset(): stop(), then routes, global middleware, application context,
\* transport, plugins and hooks are emptied.
reset ==
    /\ emission.st # "running"
    /\ eventListeners' = IF isActive THEN NoListeners ELSE eventListeners
    /\ isActive' = FALSE
    /\ routes' = [e \in RouteKeys |-> NoRoute]
    /\ globalMiddleware' = 0
    /\ globalAppContext' = "fresh"
    /\ transport' = "none"
    /\ plugins' = <<>>
    /\ lifecycleHooks' = [h \in HookNames |-> 0]
    /\ UNCHANGED <<errorHandler, listening, dispatching, msg, regCall,
                   emission, customEventEmitter, delegated, raised, starts,
                   lost, installs, strictMode, serializer, observable>>

\* setSerializer(custom): throws unless custom has encode and decode.
setSerializer(x) ==
    /\ IF x = "codec"
       THEN serializer' = x /\ raised' = "none"
       ELSE serializer' = serializer /\ raised' = "bad-serializer"
    /\ UNCHANGED <<core, bus, starts, lost, plugins, installs, strictMode,
                   observable>>

\* An application that listens on one event, starts and stops.
listen == eventListeners["e1"] = <<>> /\ on("e1", "cbA")
startNow == listening < MaxStarts /\ start
routePing == routes["ping"] = NoRoute /\ registerRoutes("ping", [NoRoute EXCEPT !.handler = "hA"])

NextLife ==
    \/ \E b \in BOOLEAN : configure(b)
    \/ \E x \in Adapters : adapterOf(x)
    \/ \E p \in UseArgs : \E b \in BOOLEAN : use(p, b)
    \/ listen
    \/ startNow
    \/ stop
    \/ reset
    \/ registerGlobalMiddleware(1)
    \/ routePing

SpecLife == Init /\ [][NextLife]_vars

\* ------------------------------------------------------------------- wire
\* One message at a time through an instance whose serializer is set at any
\* moment: before the adapter is bound, after it, or while a message is in
\* its pipeline.
wireRoute == routes["ping"] = NoRoute /\ registerRoutes("ping", [NoRoute EXCEPT !.handler = "hA"])
wireStart == listening = 0 /\ start

NextWire ==
    \/ \E x \in SerializerArgs : setSerializer(x)
    \/ adapter
    \/ wireRoute
    \/ setErrorHandler
    \/ wireStart
    \/ \E t \in EventTypes : \E w \in Inbound : Receive(FirstSlot, t, w)
    \/ EnterGlobal(FirstSlot)
    \/ AfterGlobal(FirstSlot)
    \/ GuardsPassed(FirstSlot)
    \/ AfterRouteMw(FirstSlot)
    \/ HandlerSend(FirstSlot)
    \/ HandlerBroadcast(FirstSlot)
    \/ HandlerReturn(FirstSlot)
    \/ \E e \in ErrMsgs : HandlerThrow(FirstSlot, e)
    \/ AfterMessageDone(FirstSlot)
    \/ CallErrorHandler(FirstSlot, FALSE)
    \/ Retire(FirstSlot)

SpecWire == Init /\ [][NextWire]_vars

\* ------------------------------------------------------------ stop, start
\* An instance that is started and stopped while its adapter, which has the
\* three required methods and no disconnect, goes on reporting messages.
stopHook == ~dispatching /\ hook("beforeMessage")

NextStop ==
    \/ adapter
    \/ wireRoute
    \/ stopHook
    \/ startNow
    \/ startUnbound
    \/ stop
    \/ reset
    \/ \E t \in EventTypes : Deliver(FirstSlot, t)
    \/ \E t \in EventTypes : ReceiveUnbound(FirstSlot, t)
    \/ \E b \in BOOLEAN : runHooks(FirstSlot, b)
    \/ EnterGlobal(FirstSlot)
    \/ AfterGlobal(FirstSlot)
    \/ GuardsPassed(FirstSlot)
    \/ AfterRouteMw(FirstSlot)
    \/ HandlerReturn(FirstSlot)
    \/ AfterMessageDone(FirstSlot)
    \/ Retire(FirstSlot)

SpecStop == Init /\ [][NextStop]_vars

\* ------------------------------------------------- registration in flight
\* Routes of one event type are registered before the first message, and
\* registered again or cleared by reset() while a message is in its pipeline.
FlightRouteDefs == {rd \in RouteDefs : rd.guards <= 1 /\ rd.middleware <= 1}

flightRoute(rd) == ~dispatching /\ registerRoutes("ping", rd)

\* registerRoutes([route]) called while or after a message is processed
reRegister(rd) ==
    /\ dispatching
    /\ routes["ping"] # rd
    /\ RoutesRegistered(<<Route("ping", rd.guards, rd.middleware, rd.handler)>>)

NextFlight ==
    \/ \E rd \in FlightRouteDefs : flightRoute(rd)
    \/ \E rd \in FlightRouteDefs : reRegister(rd)
    \/ reset
    \/ adapter
    \/ startNow
    \/ Deliver(FirstSlot, "ping")
    \/ EnterGlobal(FirstSlot)
    \/ AfterGlobal(FirstSlot)
    \/ \E o \in GuardOutcomes : Guard(FirstSlot, o, FALSE)
    \/ GuardsPassed(FirstSlot)
    \/ \E a \in BOOLEAN : MwCallNext(FirstSlot, "r", 0, a, FALSE)
    \/ MwReturn(FirstSlot, "r", 0)
    \/ MwThrow(FirstSlot, "r", 0)
    \/ AfterRouteMw(FirstSlot)
    \/ HandlerReturn(FirstSlot)
    \/ \E e \in ErrMsgs : HandlerThrow(FirstSlot, e)
    \/ AfterMessageDone(FirstSlot)
    \/ CallErrorHandler(FirstSlot, FALSE)
    \/ Retire(FirstSlot)

SpecFlight == Init /\ [][NextFlight]_vars

\* ------------------------------------------------- ObservableResponse
realtime == <<core, bus, raised, starts, lost, plugins, installs, strictMode,
              serializer>>

Chain(o) == ~observable.yielded /\ observable' = o /\ UNCHANGED realtime

\* onOk(callback), onStatus(status, callback), onStatusAny(callback),
\* catch(callback), finally(callback), retry(times), timeout(ms)
onOk ==
    /\ "2xx" \notin observable.handlers
    /\ Chain([observable EXCEPT !.handlers = @ \cup {"2xx"}])
onStatus(status) ==
    /\ status \notin observable.handlers
    /\ Chain([observable EXCEPT !.handlers = @ \cup {status}])
onStatusAny ==
    /\ ~observable.anyHandler
    /\ Chain([observable EXCEPT !.anyHandler = TRUE])
catch ==
    /\ ~observable.catchHandler
    /\ Chain([observable EXCEPT !.catchHandler = TRUE])
finally ==
    /\ ~observable.finallyHandler
    /\ Chain([observable EXCEPT !.finallyHandler = TRUE])
retry(times) ==
    /\ observable.maxRetries = 0
    /\ Chain([observable EXCEPT !.maxRetries = times])
timeout ==
    /\ observable.timeoutId = "none"
    /\ Chain([observable EXCEPT !.timeoutId = "armed"])

\* The chained statement ends; from now on the executor and the timer report.
yield ==
    /\ ~observable.yielded
    /\ observable' = [observable EXCEPT !.yielded = TRUE]
    /\ UNCHANGED realtime

\* clearTimeout(this.timeoutId)
clearTimeout(id) == IF id = "armed" THEN "cleared" ELSE id

\* Faulty variant of safeExecute: finally is skipped when the callback threw.
safeExecute_NoFinally(o, threw) ==
    [o EXCEPT !.handlerRuns = @ + 1,
              !.finallyCalls = IF o.finallyHandler /\ ~threw THEN @ + 1 ELSE @]

\* _safeExecute(callback, data): try { callback(data) } catch { catchHandler }
\* finally { finallyHandler }
safeExecute(o, threw) ==
    [o EXCEPT !.handlerRuns = @ + 1,
              !.finallyCalls = IF o.finallyHandler THEN @ + 1 ELSE @]

\* The handler _resolve picks: handlers[status], or handlers['2xx'] for a
\* status from 200 to 299; _reject picks handlers[status] only.
HandlerFor(o, how, status) ==
    IF status \in o.handlers THEN status
    ELSE IF how = "resolve" /\ Is2xx(status) /\ "2xx" \in o.handlers THEN "2xx"
    ELSE IF o.anyHandler THEN "any"
    ELSE "none"

\* The common end of _resolve and _reject: the handler for the status, or
\* the any-handler, through _safeExecute; with neither, finallyHandler?.().
Deliver1(o, how, status, threw) ==
    LET h == HandlerFor(o, how, status)
        o1 == IF h # "none" THEN safeExecute(o, threw)
              ELSE [o EXCEPT !.finallyCalls = IF o.finallyHandler THEN @ + 1 ELSE @]
    IN  [o1 EXCEPT !.delivered = @ + 1,
                   !.last = [status |-> status, ran |-> h, threw |-> threw,
                             fin |-> o1.finallyCalls > o.finallyCalls]]

\* _reject(error), after clearTimeout: a retry while retryCount < maxRetries,
\* which calls the executor again, else the delivery of the failure.
Rejected(o, status, threw) ==
    IF o.retryCount < o.maxRetries
    THEN [o EXCEPT !.retryCount = @ + 1, !.attempts = @ + 1, !.inFlight = @ + 1]
    ELSE Deliver1(o, "reject", status, threw)

Throws(o, how, status, threw) ==
    threw => HandlerFor(o, how, status) # "none"

\* An attempt of the request ends with a response: _resolve(response).
resolve(status, threw) ==
    LET o == [observable EXCEPT !.inFlight = @ - 1,
                                !.timeoutId = clearTimeout(@)]
    IN  /\ observable.yielded
        /\ observable.inFlight > 0
        /\ Throws(o, "resolve", status, threw)
        /\ observable' = Deliver1(o, "resolve", status, threw)
        /\ UNCHANGED realtime

\* An attempt of the request fails: _reject(error).
reject(status, threw) ==
    LET o == [observable EXCEPT !.inFlight = @ - 1,
                                !.timeoutId = clearTimeout(@)]
    IN  /\ observable.yielded
        /\ observable.inFlight > 0
        /\ threw => (o.retryCount >= o.maxRetries /\ Throws(o, "reject", status, threw))
        /\ observable' = Rejected(o, status, threw)
        /\ UNCHANGED realtime

\* The timer of timeout(ms) fires: _reject({status: 'timeout', ...}).  The
\* attempt it was waiting for stays in flight.
timerFires(threw) ==
    LET o == [observable EXCEPT !.timeoutId = "fired"]
    IN  /\ observable.yielded
        /\ observable.timeoutId = "armed"
        /\ threw => (o.retryCount >= o.maxRetries /\ Throws(o, "reject", "timeout", threw))
        /\ observable' = Rejected(o, "timeout", threw)
        /\ UNCHANGED realtime

NextHttp ==
    \/ onOk
    \/ \E k \in StatusKeys : onStatus(k)
    \/ onStatusAny
    \/ catch
    \/ finally
    \/ \E n \in 1..MaxRetries : retry(n)
    \/ timeout
    \/ yield
    \/ \E st \in ResolveStatuses : \E b \in BOOLEAN : resolve(st, b)
    \/ \E st \in RejectStatuses : \E b \in BOOLEAN : reject(st, b)
    \/ \E b \in BOOLEAN : timerFires(b)

SpecHttp == Init /\ [][NextHttp]_vars

\* ------------------------------------------------------ route registration
\* Route lists of an application whose routes have a handler only.
RouteEntries ==
    {Route(e, 0, 0, h) : e \in {"ping"} \cup FalsyEvents, h \in RouteHandlers}
RouteLists == UNION {[1..n -> RouteEntries] : n \in 0..MaxRouteList}

NextRoutes ==
    \/ \E list \in RouteLists : registerRouteList(list)
    \/ adapter
    \/ start
    \/ \E s \in Slots : \E t \in EventTypes : Deliver(s, t)
    \/ \E s \in Slots : EnterGlobal(s)
    \/ \E s \in Slots : AfterGlobal(s)
    \/ \E s \in Slots : GuardsPassed(s)
    \/ \E s \in Slots : AfterRouteMw(s)
    \/ \E s \in Slots : HandlerReturn(s)
    \/ \E s \in Slots : AfterMessageDone(s)
    \/ \E s \in Slots : Retire(s)

SpecRoutes == Init /\ [][NextRoutes]_vars

\* ------------------------------------------- concurrent message processing
\* wrapTransport.onMessage calls the message callback for every message the
\* adapter reports and does not await it: a message is taken whenever the
\* adapter reports one, whatever the other invocations are doing.
\* Faulty variant of CallbackInvocable: one invocation at a time.
CallbackInvocable_Serialized(s) ==
    /\ listening > 0
    /\ transport = "bound"
    /\ \A q \in Slots : msg[q].st = "idle"

\* An invocation of the message callback can begin in slot s.
CallbackInvocable(s) ==
    /\ listening > 0
    /\ transport = "bound"
    /\ msg[s].st = "idle"

InFlight(m) == m.st \notin {"idle", "Escaped"} \cup Terminal

\* The adapter reports a message while other invocations may be suspended.
DeliverConc(s, t) ==
    /\ CallbackInvocable(s)
    /\ dispatching' = TRUE
    /\ SetMsg(s, [createContext(t, decoded(NoPayload)) EXCEPT
                    !.st = "beforeMessage", !.trace = <<"beforeMessage">>,
                    !.overlap = \E q \in Slots \ {s} : InFlight(msg[q])])
    /\ UNCHANGED config

\* The steps of the invocation in slot s, for an application that registers
\* routes with guards and a handler.
Pipeline(s) ==
    \/ EnterGlobal(s)
    \/ AfterGlobal(s)
    \/ \E o \in GuardOutcomes : \E b \in BOOLEAN : Guard(s, o, b)
    \/ GuardsPassed(s)
    \/ AfterRouteMw(s)
    \/ HandlerSend(s)
    \/ HandlerReturn(s)
    \/ \E e \in ErrMsgs : HandlerThrow(s, e)
    \/ AfterMessageDone(s)
    \/ CallErrorHandler(s, FALSE)

ConcRouteDefs == {rd \in RouteDefs : rd.guards <= 1 /\ rd.middleware = 0 /\ rd.handler = "hA"}

NextConc ==
    \/ \E rd \in ConcRouteDefs : registerRoutes("ping", rd)
    \/ \E c \in AppArgs : setAppContext(c)
    \/ adapter
    \/ start
    \/ \E s \in Slots : \E t \in EventTypes : DeliverConc(s, t)
    \/ \E s \in Slots : Pipeline(s)
    \/ \E s \in Slots : Retire(s)

SpecConc == Init /\ [][NextConc]_vars

\* ------------------------------------------------------------ isolation
\* Two invocations of the message callback in flight, for an application
\* with one global middleware and one route middleware, each of which calls
\* its continuation at most once and may stop the message or write ctx.meta.
isoGlobal == globalMiddleware = 0 /\ registerGlobalMiddleware(1)
isoRoute == routes["ping"] = NoRoute /\ registerRoutes("ping", Route("ping", 0, 1, "hA"))
isoNext(s, c, awaited) ==
    /\ ~msg[s][c].fr[0].called
    /\ MwCallNext(s, c, 0, awaited, FALSE)

NextIso ==
    \/ isoGlobal
    \/ isoRoute
    \/ adapter
    \/ wireStart
    \/ \E s \in Slots : DeliverConc(s, "ping")
    \/ \E s \in Slots : EnterGlobal(s)
    \/ \E s \in Slots : \E c \in ChainNames : \E a \in BOOLEAN : isoNext(s, c, a)
    \/ \E s \in Slots : \E c \in ChainNames : MwStop(s, c, 0)
    \/ \E s \in Slots : \E c \in ChainNames : MwMeta(s, c, 0)
    \/ \E s \in Slots : \E c \in ChainNames : MwReturn(s, c, 0)
    \/ \E s \in Slots : AfterGlobal(s)
    \/ \E s \in Slots : GuardsPassed(s)
    \/ \E s \in Slots : AfterRouteMw(s)
    \/ \E s \in Slots : HandlerReturn(s)
    \/ \E s \in Slots : AfterMessageDone(s)
    \/ \E s \in Slots : Retire(s)

SpecIso == Init /\ [][NextIso]_vars

\* ------------------------------------------------------------------ claims
IsPrefix(p, q) == Len(p) <= Len(q) /\ \A k \in 1..Len(p) : p[k] = q[k]
Entered(m, stage) == \E k \in 1..Len(m.trace) : m.trace[k] = stage
Times(m, stage) == Cardinality({k \in 1..Len(m.trace) : m.trace[k] = stage})
Started(m) == {<<c, j>> \in ChainNames \X Frames : m[c].fr[j].st # "idle"}

\* C1: for every inbound message the stages are entered in the order
\* beforeMessage hooks, global chain, route lookup, guards, route chain,
\* handler, afterMessage hooks; beforeMessage comes first and once, and a
\* stage is entered only when every earlier stage was entered and accepted
\* the message (the runner reported true, a route was found, the guards
\* allowed, the handler returned).
C1_StageOrder ==
    \A s \in Slots :
        LET m == msg[s]
        IN  /\ m.st # "idle" => (m.trace # <<>> /\ m.trace[1] = "beforeMessage")
            /\ IsPrefix(m.trace, StageOrder)
            /\ Entered(m, "lookup") => m.g.res = "true"
            /\ Entered(m, "guards") => m.route # NoRoute /\ m.route = routes[m.type]
            /\ Entered(m, "routeMw") => m.gdRes = "true" /\ m.gdEval = m.route.guards
            /\ Entered(m, "handler") => m.r.res = "true" /\ m.handlerCalls = 1
            /\ Entered(m, "afterMessage") => m.hDone
            /\ m.st = "Done" => m.trace = StageOrder

C1_Witness ==
    \E s \in Slots :
        /\ msg[s].st = "Done"
        /\ msg[s].trace = StageOrder
        /\ msg[s].route.guards > 0
        /\ lifecycleHooks["beforeMessage"] > 0

\* C2: a middleware that returns without calling next() and without
\* ctx.stop() short-circuits the message: no later middleware of its chain
\* runs and the handler is not invoked.
C2_OmittedNextShortCircuits ==
    \A s \in Slots : \A c \in ChainNames : \A j \in Frames :
        LET m == msg[s]
        IN  (m[c].fr[j] = Frame("ok", FALSE) /\ ~m.stopped) =>
                /\ m.handlerCalls = 0
                /\ (j + 1 \in Frames => m[c].fr[j + 1].st = "idle")

\* C3: when a global middleware calls ctx.stop(), the handler is never
\* invoked and the afterMessage hooks still run exactly once.
C3_StopStillRunsAfterMessage ==
    \A s \in Slots :
        LET m == msg[s]
        IN  (m.st \in Terminal /\ m.stopBy = "g") =>
                /\ m.handlerCalls = 0
                /\ Times(m, "afterMessage") = 1

\* C4: once ctx.stop() has been called for a message, no middleware that had
\* not yet started is started and the handler is not invoked for it.
C4_StopHaltsPropagation ==
    [][\A s \in Slots :
         (msg[s].stopped /\ msg'[s].st # "idle") =>
             /\ Started(msg'[s]) \subseteq Started(msg[s])
             /\ msg'[s].handlerCalls = msg[s].handlerCalls]_vars

\* C5: a second invocation of a continuation fails with the
\* double-continuation error and the message ends Errored: the onError hooks
\* and the error handler are invoked for it and the handler is not.
C5_DoubleNextEndsErrored ==
    \A s \in Slots :
        LET m == msg[s]
        IN  (m.st \in Terminal /\ m.dbl) =>
                /\ m.st = "Errored"
                /\ Len(m.onErrLog) = lifecycleHooks["onError"]
                /\ Len(m.ehLog) = 1
                /\ m.handlerCalls = 0

Rejects(v) ==
    v \in GuardValues \ { GuardValue("boolean", "true", "absent", "none"),
                          GuardValue("object", "none", "true", "none") }

\* C7: if the guard at index i rejects, no guard after it is evaluated and
\* neither the route middleware nor the handler executes for that message.
C7_GuardRejectionStops ==
    /\ [](\A s \in Slots :
            Rejects(msg[s].gdLast) =>
                /\ msg[s].gdRes = "false"
                /\ msg[s].r.i = -1
                /\ msg[s].handlerCalls = 0)
    /\ [][\A s \in Slots :
            (Rejects(msg[s].gdLast) /\ msg'[s].st # "idle") =>
                /\ msg'[s].gdEval = msg[s].gdEval
                /\ msg'[s].r = NoRun
                /\ msg'[s].handlerCalls = 0]_vars

C7_Witness ==
    \E s \in Slots :
        /\ Rejects(msg[s].gdLast)
        /\ msg[s].gdEval = 1
        /\ msg[s].route.guards = 2
        /\ msg[s].st = "Rejected"

\* C8: a guard that throws is a rejection: runGuards reports false, the
\* remaining guards are not evaluated, the handler does not run and the
\* exception does not leave runGuards (the catch block of the callback, the
\* onError hooks and the error handler are not reached).
C8_GuardThrowRejects ==
    /\ [](\A s \in Slots :
            msg[s].gdLast = GuardThrew =>
                /\ msg[s].gdRes = "false"
                /\ msg[s].st = "Rejected"
                /\ msg[s].handlerCalls = 0
                /\ msg[s].err = "none"
                /\ msg[s].onErrLog = <<>> /\ msg[s].ehLog = <<>>)
    /\ [][\A s \in Slots :
            (msg[s].gdLast = GuardThrew /\ msg'[s].st # "idle") =>
                msg'[s].gdEval = msg[s].gdEval]_vars

C8_Witness ==
    \E s \in Slots :
        /\ msg[s].gdLast = GuardThrew
        /\ msg[s].gdEval = 1
        /\ msg[s].route.guards = 2
        /\ msg[s].st = "Rejected"

\* C9: a message whose event type has no registered route invokes no
\* handler, fires no onError hook and calls no error handler, whatever
\* routes the other event types have.
C9_NoRouteNoHandler ==
    \A s \in Slots :
        LET m == msg[s]
        IN  (m.st # "idle" /\ routes[m.type] = NoRoute) =>
                /\ m.handlerCalls = 0
                /\ m.onErrLog = <<>> /\ m.ehLog = <<>>
                /\ m.st \in {"beforeMessage", "global", "Rejected"}
                /\ m.sent = <<>>

C9_Witness ==
    \E s \in Slots :
        /\ msg[s].st = "Rejected"
        /\ Entered(msg[s], "lookup")
        /\ routes[msg[s].type] = NoRoute
        /\ \E e \in EventTypes : routes[e] # NoRoute

ErrorSends(m) == SelectSeq(m.sent, LAMBDA x : x.type = "error")

\* C10: when the handler throws err, the onError hooks are invoked in
\* registration order with (err, ctx), then the configured error handler is
\* invoked exactly once with the same err; the default error handler makes
\* exactly one ctx.send('error', {message: err.message}).
C10_HandlerErrorReported ==
    \A s \in Slots :
        LET m == msg[s]
        IN  /\ m.hErr # "none" =>
                /\ m.st \in {"onError", "Errored", "Escaped"}
                /\ m.onErrLog = [k \in 1..Len(m.onErrLog) |-> <<k, m.hErr>>]
                /\ Len(m.onErrLog) <= lifecycleHooks["onError"]
                /\ m.ehLog # <<>> => Len(m.onErrLog) = lifecycleHooks["onError"]
                /\ m.st \in {"Errored", "Escaped"} =>
                     /\ m.ehLog = <<m.hErr>>
                     /\ errorHandler = "default" =>
                          ErrorSends(m) = <<[type |-> "error",
                                             payload |-> [message |-> m.hErr]]>>
                /\ m.st = "onError" => (m.ehLog = <<>> /\ ErrorSends(m) = <<>>)
            /\ m.hErr = "none" => (m.ehLog = <<>> /\ ErrorSends(m) = <<>>)

C10_Witness ==
    \E s \in Slots :
        /\ msg[s].st = "Errored"
        /\ msg[s].hErr = "kaput"
        /\ lifecycleHooks["onError"] = 2
        /\ errorHandler = "default"
        /\ Len(msg[s].sent) = 2

\* C11: an exception thrown inside a middleware or inside a guard is routed
\* to the onError hooks and to the configured error handler of the message,
\* as an exception thrown by the handler is.
C11_ThrowReachesErrorPath ==
    \A s \in Slots :
        LET m == msg[s]
            thrown == \/ m.gdLast = GuardThrew
                      \/ m.g.fr[0].st = "err"
                      \/ m.r.fr[0].st = "err"
        IN  (thrown /\ m.st \in Terminal \cup {"Escaped"}) =>
                /\ m.err # "none"
                /\ Len(m.onErrLog) = lifecycleHooks["onError"]
                /\ Len(m.ehLog) = 1

\* C12: no exception escapes the processing of an inbound message: whatever
\* a hook, a middleware, a guard, the handler or the configured error
\* handler throws, the message callback neither throws nor rejects.
C12_NoExceptionEscapes ==
    \A s \in Slots : msg[s].st # "Escaped"

\* C13: within one message no later stage (route lookup, guards, route
\* middleware, handler) begins while a middleware of an earlier chain is
\* still executing, however the middleware use their continuation.
C13_StagesStrictlySequential ==
    \A s \in Slots : \A c \in ChainNames : \A j \in Frames :
        msg[s][c].res # "none" => msg[s][c].fr[j].st \notin {"run", "wait"}

\* C14: messages are not serialized against each other: a free invocation
\* of the message callback can begin whatever the other invocations are
\* doing, and an invocation in flight always has a step it can take, so a
\* later message can reach a terminal state while an earlier one is
\* suspended.
C14_MessagesNotSerialized ==
    \A s \in Slots :
        /\ (listening > 0 /\ transport = "bound" /\ msg[s].st = "idle") =>
               \A t \in EventTypes : ENABLED DeliverConc(s, t)
        /\ InFlight(msg[s]) => ENABLED Pipeline(s)

C14_Witness ==
    /\ msg["A"].st = "handler" /\ ~msg["A"].overlap
    /\ msg["B"].st = "Done" /\ msg["B"].overlap

\* C15: setAppContext(c) affects only contexts created after the call: a
\* message in flight reads the same ctx.appContext through all its stages,
\* a context is created with the application context of that moment, and
\* after setAppContext(c) for an object c that is c.
C15_AppContextCapturedAtCreation ==
    [][/\ \A s \in Slots :
            /\ (msg[s].st # "idle" /\ msg'[s].st # "idle") =>
                   CtxAppContext(msg[s])' = CtxAppContext(msg[s])
            /\ (msg[s].st = "idle" /\ msg'[s].st # "idle") =>
                   CtxAppContext(msg[s])' = globalAppContext
       /\ \A c \in AppArgs \ {"null"} :
            setAppContext(c) => globalAppContext' = c]_vars

C15_Witness ==
    \E s \in Slots :
        /\ msg[s].st = "handler"
        /\ CtxAppContext(msg[s]) = "c1"
        /\ globalAppContext = "c2"
        /\ \E q \in Slots : msg[q].st = "Done" /\ CtxAppContext(msg[q]) = "c2"

\* A route the specification of registerRoutes calls invalid.
Invalid(route) == route.event = "" \/ route.handler \notin Handlers
\* The routes of a list that precede its first invalid route.
Accepted(list) ==
    LET bad == {k \in 1..Len(list) : Invalid(list[k])}
    IN  IF bad = {} THEN list
        ELSE SubSeq(list, 1, (CHOOSE k \in bad : \A q \in bad : k <= q) - 1)
\* The route of e after the routes of list were registered on table rt.
LastRegistered(rt, list, e) ==
    LET ks == {k \in 1..Len(list) : list[k].event = e}
        last == CHOOSE k \in ks : \A q \in ks : q <= k
    IN  IF ks = {} THEN rt[e]
        ELSE [guards |-> list[last].guards, middleware |-> list[last].middleware,
              handler |-> list[last].handler]

\* C16: after any sequence of registerRoutes calls the route of event type e
\* is the one of the most recent registration for e, across calls and within
\* one list, and it is the route a message of type e is dispatched to.
C16_LastRegistrationWins ==
    /\ [](\A s \in Slots :
            LET m == msg[s]
            IN  /\ Entered(m, "guards") => m.route = routes[m.type]
                /\ m.hId # "none" => m.hId = routes[m.type].handler)
    /\ [][regCall' # regCall =>
            \A e \in RouteKeys :
                routes'[e] = LastRegistered(routes, Accepted(regCall'.list), e)]_vars

C16_Witness ==
    /\ Len(regCall.list) = 2
    /\ regCall.list[1] = Route("ping", 0, 0, "hA")
    /\ regCall.list[2] = Route("ping", 0, 0, "hB")
    /\ \E s \in Slots : msg[s].st = "Done" /\ msg[s].hId = "hB"

\* C17: registerRoutes throws for a list with a route whose event is empty
\* or missing or whose handler is missing or not a function, and never
\* inserts such a route: every route of the table has a non-empty event key
\* and a callable handler.
C17_InvalidRouteRejected ==
    /\ \A k \in RouteKeys :
          routes[k] # NoRoute => (k # "" /\ routes[k].handler \in Handlers)
    /\ (\E k \in 1..Len(regCall.list) : Invalid(regCall.list[k]))
          <=> regCall.error # "none"

C17_Witness ==
    /\ regCall.error = "not-function"
    /\ Len(regCall.list) = 2
    /\ regCall.list[1] = Route("ping", 0, 0, "hA")
    /\ routes["ping"].handler = "hA"

Count(list, x) == Cardinality({k \in 1..Len(list) : list[k] = x})

\* C18: emit(e, d) on the built-in event bus invokes, before it returns or
\* throws, every callback registered for e, in registration order and once
\* per registration, and no callback of another event.  Stated for
\* emissions during which no listener calls on or off for e.
C18_EmitInvokesAllInOrder ==
    (/\ emission.st \in {"returned", "threw"}
     /\ emission.removed = {}
     /\ ~emission.added) => emission.log = emission.at

\* C19: an exception of a listener is caught inside emit: emit does not
\* throw to its caller, and the listeners registered after the one that
\* threw are still invoked.
C19_ListenerThrowCaught ==
    emission.st # "threw"

\* C20: when listeners call off(e, cb) during an emission of e, every
\* listener that is not removed is still invoked exactly once, and a
\* listener removed before its turn is not invoked.  Stated for emissions
\* that return, over distinct listeners, with no on during the emission.
C20_OffDuringEmission ==
    (/\ emission.st = "returned"
     /\ ~emission.added
     /\ \A cb \in Callbacks : Count(emission.at, cb) <= 1) =>
        \A cb \in Callbacks :
            /\ (Count(emission.at, cb) = 1 /\ cb \notin emission.removed) =>
                   Count(emission.log, cb) = 1
            /\ cb \in emission.early => Count(emission.log, cb) = 0

\* list2 is list1 without the occurrence of cb at the lowest index, the
\* other elements in their order; list1 itself when cb does not occur.
FirstRemoved(list1, list2, cb) ==
    LET ks == {k \in 1..Len(list1) : list1[k] = cb}
    IN  IF ks = {} THEN list2 = list1
        ELSE \E k \in ks :
                /\ \A q \in ks : k <= q
                /\ Len(list2) = Len(list1) - 1
                /\ \A i \in 1..Len(list2) :
                      list2[i] = IF i < k THEN list1[i] ELSE list1[i + 1]

\* C21: off(e, cb) removes exactly one registration, the first occurrence of
\* cb in the list of e, keeps the order of the others, changes nothing when
\* cb is not registered for e or e has no listeners, and leaves the lists
\* of the other events alone; called by a listener during an emission too.
C21_OffRemovesFirstOccurrence ==
    [][\A e \in BusEvents : \A cb \in Callbacks :
         (off(e, cb) \/ Listener("off", e, cb)) =>
             /\ FirstRemoved(eventListeners[e], eventListeners'[e], cb)
             /\ \A o \in BusEvents \ {e} :
                   eventListeners'[o] = eventListeners[o]]_vars

\* C21, for the built-in registry: while no custom event emitter is set,
\* off(e, cb) removes exactly the first occurrence of cb in the list of e,
\* keeps the order of the others, changes nothing when cb is not registered
\* for e, and leaves the lists of the other events alone.  With a custom
\* emitter off is handed to the emitter and the list keeps the callback.
C21_OffRemovesFirstOccurrence_BuiltIn ==
    [][\A e \in BusEvents : \A cb \in Callbacks :
         (customEventEmitter = "none" /\ (off(e, cb) \/ Listener("off", e, cb))) =>
             /\ FirstRemoved(eventListeners[e], eventListeners'[e], cb)
             /\ \A o \in BusEvents \ {e} :
                   eventListeners'[o] = eventListeners[o]]_vars

C21_Witness ==
    /\ customEventEmitter = "none"
    /\ emission.st = "returned"
    /\ emission.at = <<"cbA", "cbB", "cbA">>
    /\ emission.removed = {"cbA"}
    /\ eventListeners[emission.event] = <<"cbB", "cbA">>

\* C22: after setEventEmitter(x) every on, off and emit call is handed to
\* the method of that name of x with the same arguments, and the built-in
\* listener registry is neither iterated nor modified.
C22_CustomEmitterDelegation ==
    [][customEventEmitter # "none" =>
         /\ UNCHANGED <<eventListeners, emission>>
         /\ \A e \in BusEvents :
               /\ emit(e) => delegated' = Call(customEventEmitter, "emit", e, "data")
               /\ \A cb \in Callbacks :
                     /\ on(e, cb) => delegated' = Call(customEventEmitter, "on", e, cb)
                     /\ off(e, cb) => delegated' = Call(customEventEmitter, "off", e, cb)]_vars

C22_Witness ==
    /\ customEventEmitter = "x2"
    /\ delegated = Call("x2", "emit", "e1", "data")
    /\ eventListeners["e1"] = <<"cbA", "cbB">>
    /\ emission = NoEmission

\* The entries of a hook log for one lifecycle name.
OfName(log, name) == SelectSeq(log, LAMBDA x : x[1] = name)
\* The hooks of a name ran one after the other in registration order.
InOrder(log, name) ==
    \A k \in 1..Len(OfName(log, name)) : OfName(log, name)[k][2] = k

\* C23: the hooks of one lifecycle name run in registration order, one at
\* a time; a hook that throws is caught, the later hooks of that name still
\* run, and start() or the processing of the message goes on as if the hook
\* had succeeded.
C23_HooksIsolated ==
    /\ \A c \in StartCalls :
          LET sc == starts[c]
          IN  /\ sc.st \in {"idle", "beforeStart", "afterStart"}
              /\ \A h \in {"beforeStart", "afterStart"} : InOrder(sc.log, h)
              /\ sc.st = "afterStart" =>
                    /\ Len(OfName(sc.log, "beforeStart")) = lifecycleHooks["beforeStart"]
                    /\ isActive
    /\ \A s \in Slots :
          LET m == msg[s]
              ran(h) == Len(OfName(m.hkLog, h))
          IN  /\ m.st # "Escaped"
              /\ \A h \in MsgHookNames : InOrder(m.hkLog, h)
              /\ m.st \notin {"idle", "beforeMessage"} =>
                    ran("beforeMessage") = lifecycleHooks["beforeMessage"]
              /\ m.st = "Done" => ran("afterMessage") = lifecycleHooks["afterMessage"]
              /\ m.st = "Errored" => ran("onError") = lifecycleHooks["onError"]

C23_Witness ==
    /\ msg[FirstSlot].st = "Done"
    /\ msg[FirstSlot].hkLog = << <<"beforeMessage", 1, TRUE>>,
                                 <<"beforeMessage", 2, FALSE>> >>
    /\ msg[FirstSlot].handlerCalls = 1

\* C26: after adapter(a), registerRoutes([{event: e, handler: h}]) and a
\* call of start(), a message of type e the adapter reports at any time
\* after that call is dispatched to h.
C26_MessageAfterStartDispatched ==
    lost = "none" \/ routes[lost] = NoRoute

\* The guards, the route middleware and the handler of the message are over.
RouteStagesOver(m) ==
    m.st \in {"afterMessage", "onError", "Done", "Rejected", "Errored", "Escaped"}

\* C27: in a global middleware that awaits next(), `await next()` returns
\* (or throws) only after the guards, the route middleware and the handler
\* of the matched route have completed for that message.
C27_AwaitNextSpansHandler ==
    [][\A s \in Slots : \A j \in Frames :
         (/\ msg[s].type \in EventTypes
          /\ routes[msg[s].type] # NoRoute
          /\ \/ MwCallNext(s, "g", j, TRUE, FALSE) /\ msg'[s].g.fr[j].st = "run"
             \/ \E k \in BOOLEAN : MwResume(s, "g", j, k))
         => RouteStagesOver(msg[s])]_vars

C25_PluginInvokedOnce ==
    \A p \in Plugins : installs[p] <= 1

\* C28: after reset(), whatever came before, the instance is in its initial
\* state: no routes, no global middleware, no hooks, no plugins, no bound
\* transport, an empty application context, no event-bus listeners, and
\* isStarted() false.
C28_ResetRestoresInitial ==
    [][reset =>
         /\ routes' = [e \in RouteKeys |-> NoRoute]
         /\ globalMiddleware' = 0
         /\ lifecycleHooks' = [h \in HookNames |-> 0]
         /\ plugins' = <<>>
         /\ transport' = "none"
         /\ globalAppContext' \in {"initial", "fresh"}
         /\ \A e \in BusEvents : eventListeners'[e] = <<>>
         /\ ~isActive']_vars

\* C29: with strict validation on, adapter(x) for an x that lacks onMessage,
\* send or broadcast throws the error naming the missing method and leaves
\* the transport as it was, bound or not.
C29_StrictAdapterValidation ==
    [][\A x \in {"noOnMessage", "noSend", "noBroadcast"} :
         (strictMode /\ adapterOf(x)) =>
             /\ transport' = transport
             /\ raised' = CASE x = "noOnMessage" -> "onMessage"
                             [] x = "noSend" -> "send"
                             [] x = "noBroadcast" -> "broadcast"]_vars

C29_Witness ==
    /\ strictMode
    /\ raised = "send"
    /\ transport = "other"
    /\ isActive

\* C30: with a serializer configured, before or after the adapter was bound,
\* the payload of every ctx.send and ctx.broadcast reaches the adapter
\* encoded exactly once, and the context of a message holds the inbound
\* payload decoded exactly once.
C30_SerializerAppliedOnce ==
    [][\A s \in Slots :
         serializer = "codec" =>
           /\ Len(msg'[s].sent) = Len(msg[s].sent) + 1 =>
                 LET n == Len(msg'[s].sent)
                     a == msg'[s].sent[n]
                 IN  /\ Len(msg'[s].wire) = n
                     /\ msg'[s].wire[n].type = a.type
                     /\ msg'[s].wire[n].payload =
                            [layers |-> <<"codec">>, body |-> a.payload]
           /\ (msg[s].st = "idle" /\ msg'[s].st # "idle"
                 /\ msg'[s].raw.layers # <<>>) =>
                 /\ msg'[s].raw.layers = <<"codec">> \o msg'[s].payload.layers
                 /\ msg'[s].raw.body = msg'[s].payload.body]_vars

C30_Witness ==
    \E s \in Slots :
        /\ serializer = "codec"
        /\ msg[s].raw.layers = <<"codec">>
        /\ msg[s].payload.layers = <<>>
        /\ Len(msg[s].wire) = 2
        /\ msg[s].wire[1].method = "broadcast"
        /\ msg[s].wire[2].type = "error"
        /\ \A i \in 1..2 : msg[s].wire[i].payload.layers = <<"codec">>

\* C38: registerRoutes is not atomic over its list: when the call throws
\* because the route at position k is invalid, the routes before k are in
\* the table, over whatever their events had before, and no route at k or
\* after it has changed the table.
C38_RegisterRoutesNotAtomic ==
    [][(regCall' # regCall /\ regCall'.error # "none") =>
         \E k \in 1..Len(regCall'.list) :
            /\ Invalid(regCall'.list[k])
            /\ \A j \in 1..(k - 1) : ~Invalid(regCall'.list[j])
            /\ \A e \in RouteKeys :
                  LET before == {j \in 1..(k - 1) : regCall'.list[j].event = e}
                  IN  IF before = {} THEN routes'[e] = routes[e]
                      ELSE \E j \in before :
                              /\ \A q \in before : q <= j
                              /\ routes'[e].handler = regCall'.list[j].handler
                              /\ routes'[e].guards = regCall'.list[j].guards
                              /\ routes'[e].middleware = regCall'.list[j].middleware]_vars

C38_Witness ==
    /\ regCall.error = "required"
    /\ regCall.list = <<Route("ping", 0, 0, "hB"), Route("", 0, 0, "hA")>>
    /\ routes["ping"].handler = "hB"

C37_StartRegistersOnce ==
    listening <= 1

\* C36: after stop() has returned and until start() is called again, a
\* message the adapter delivers runs no hook, middleware, guard or handler:
\* the pipeline of a message begins only on a started instance.
C36_StoppedInstanceIgnoresMessages ==
    [][\A s \in Slots :
         (msg[s].st = "idle" /\ msg'[s].st # "idle") => isActive]_vars

\* C31: no message is processed without a bound transport: start() with no
\* adapter fails with the not-configured error, runs no beforeStart hook and
\* leaves the instance not started, and the context creation for a message
\* that arrives while no transport is bound fails with that configuration
\* error, not with an uncontrolled fault.
C31_NoTransportIsConfigurationError ==
    [][/\ startUnbound =>
            (raised' = "no-adapter" /\ ~isActive' /\ starts' = starts
               /\ listening' = listening)
       /\ \A s \in Slots :
            (transport = "none" /\ msg[s].st = "idle" /\ msg'[s].st # "idle")
               => msg'[s].err = "no-adapter"]_vars

\* C39: a message uses the route record it resolved at its lookup step for
\* all of its remaining stages: registering the event type again or clearing
\* it while the message is in its guards or route middleware changes neither
\* the guards, the middleware nor the handler executed for it; a route
\* registered while the message is still in its global chain is the one the
\* lookup finds.
C39_RouteResolvedOnce ==
    /\ [](\A s \in Slots :
            LET m == msg[s]
            IN  /\ m.handlerCalls > 0 => m.hId = m.route.handler
                /\ m.gdEval <= m.route.guards
                /\ m.r.i >= 0 =>
                      (m.r.fr[0].st # "idle" <=> m.route.middleware > 0)
                /\ m.st \in {"afterMessage", "Done"} => m.gdEval = m.route.guards)
    /\ [][\A s \in Slots :
            /\ (msg[s].st \in {"guards", "routeMw", "handler", "afterMessage"}
                  /\ msg'[s].st # "idle") => msg'[s].route = msg[s].route
            /\ (msg[s].st = "global" /\ msg'[s].st = "guards") =>
                   msg'[s].route = routes[msg[s].type]]_vars

C39_Witness ==
    \E s \in Slots :
        /\ msg[s].st = "Done"
        /\ msg[s].hId = "hA"
        /\ msg[s].gdEval = 1
        /\ msg[s].route.middleware = 1
        /\ routes[msg[s].type] = [guards |-> 0, middleware |-> 0, handler |-> "hB"]

\* C35: the state of a message is its own: ctx.stop() and a write to
\* ctx.meta of one message are never seen through the context of another
\* message in flight, a new context starts not stopped and with an empty
\* meta, and the continuation index belongs to one chain run, so one next()
\* call per middleware in the global and route chains of two messages in
\* flight is never reported as a double continuation.
C35_PerMessageIsolation ==
    /\ [](\A s \in Slots :
            LET m == msg[s]
            IN  /\ ~m.dbl
                /\ m.g.fr[0].st # "err" /\ m.r.fr[0].st # "err"
                /\ m.stopped <=> m.stopBy # "none"
                /\ m.g.res = "false" => m.stopBy = "g"
                /\ m.r.res = "false" => m.stopBy = "r")
    /\ [][\A s \in Slots :
            /\ (msg[s].st = "idle" /\ msg'[s].st # "idle") =>
                   (~msg'[s].stopped /\ ~msg'[s].meta)
            /\ (msg[s].st # "idle" /\ msg'[s].st # "idle"
                  /\ (msg'[s].stopped # msg[s].stopped
                        \/ msg'[s].meta # msg[s].meta)) =>
                   \A q \in Slots \ {s} : msg'[q] = msg[q]]_vars

C35_Witness ==
    \E a \in Slots : \E b \in Slots \ {a} :
        /\ msg[a].st = "Rejected"
        /\ msg[a].stopped /\ msg[a].meta
        /\ msg[a].g.fr[0].called
        /\ msg[b].st = "Done"
        /\ msg[b].overlap
        /\ ~msg[b].stopped /\ ~msg[b].meta
        /\ msg[b].g.fr[0].called /\ msg[b].r.fr[0].called

C33_RetryAttemptsInTotal ==
    (observable.maxRetries > 0 /\ observable.timeoutId = "none") =>
        /\ observable.attempts <= observable.maxRetries
        /\ observable.delivered <= 1
        /\ observable.inFlight > 0 => observable.handlerRuns = 0

\* C40: an ObservableResponse delivers at most one outcome: after the
\* timeout outcome or a response was delivered, a later response or failure
\* of the same request invokes no handler, and a timeout that fires while
\* retries remain does not leave two attempts in flight.
C40_AtMostOneOutcome ==
    /\ observable.delivered <= 1
    /\ observable.inFlight <= 1

====
